---- MODULE Spec2Model ----
(***************************************************************************)
(* Model of the CamFinder entitlement server (src/server.py).              *)
(*                                                                         *)
(* The store is the JSON file DB_FILE. Every handler reads the whole file  *)
(* with load_db(), changes its private copy and writes the whole copy back *)
(* with save_db(). _db_lock is held inside load_db and inside save_db      *)
(* only, so a handler is two atomic steps on the store: the load (followed *)
(* by the handler's private computation) and the save (followed by the     *)
(* response). Handlers run concurrently in worker slots.                   *)
(*                                                                         *)
(* Time is counted in clock ticks, the resolution of datetime.utcnow().    *)
(* to_iso() drops the sub-second part of a datetime, so a stored timestamp *)
(* is always a whole number of seconds.                                    *)
(***************************************************************************)
EXTENDS Integers, Sequences, FiniteSets, TLC

\* ------------------------------------------------------------------ bounds
TicksPerSec == 2      \* clock ticks in one second (sub-second resolution)
SecsPerDay  == 2      \* seconds in one day, scaled down
MaxTime     == 2      \* the clock stops advancing here
MaxReq      == 3      \* requests that touch the store, in one behaviour
NumWorkers  == 2      \* concurrent request handlers

\* --------------------------------------------------------------- constants
INITIAL_FREE == 3

Day == SecsPerDay * TicksPerSec

\* Python's None, for timestamps and numbers, and for strings.
None    == -1
NoneStr == "None"

Workers == 1..NumWorkers
Devices == {"d1"}

\* ------------------------------------------------------------------- state
VARIABLES
    db,        \* the devices dict of DB_FILE: device_id -> device record
    clock,     \* now_utc(), in ticks
    config,    \* the prices dict of CONFIG_FILE: plan key -> plan
    workers,   \* worker slot -> the handler running in it
    nreq       \* requests begun so far

vars == <<db, clock, config, workers, nreq>>

\* --------------------------------------------------------------- utilities
\* to_iso: dt.replace(microsecond=0).isoformat(); the ISO string is
\* represented by the instant it denotes.
to_iso(dt) == IF dt = None THEN None ELSE dt - (dt % TicksPerSec)

\* from_iso: datetime.fromisoformat(s), None for None or "".
from_iso(s) == IF s = None THEN None ELSE s

\* timedelta(days=n)
timedelta(days) == days * Day

\* a or None, for strings
OrNone(s) == IF s = "" THEN NoneStr ELSE s

\* The record ensure_device creates for an unknown device_id.
NewDevice(device_id, now) ==
    [ device_id       |-> device_id,
      created_at      |-> to_iso(now),
      last_seen       |-> to_iso(now),
      free_left       |-> INITIAL_FREE,
      sub_active      |-> FALSE,
      sub_expires_at  |-> None,
      dev_mode        |-> FALSE,
      tx_history      |-> << >>,
      last_tx         |-> NoneStr,
      last_comment    |-> NoneStr,
      selected_plan   |-> NoneStr,
      last_plan_days  |-> None,
      last_plan_price |-> NoneStr ]

\* ensure_device(d, device_id): the dict d after the call.
ensure_device(d, device_id, now) ==
    IF device_id \notin DOMAIN d
    THEN (device_id :> NewDevice(device_id, now)) @@ d
    ELSE [d EXCEPT ![device_id].last_seen = to_iso(now)]

\* Faulty variant of recalc_subscription_state: the subscription already
\* counts as expired at the instant of its expiry (>= for >).
recalc_expired_at_expiry(dev, now) ==
    IF dev.dev_mode
    THEN [dev EXCEPT !.sub_active = TRUE, !.sub_expires_at = None]
    ELSE IF dev.sub_active
              /\ from_iso(dev.sub_expires_at) # None
              /\ now >= from_iso(dev.sub_expires_at)
         THEN [dev EXCEPT !.sub_active = FALSE, !.sub_expires_at = None]
         ELSE dev

\* Faulty variant of recalc_subscription_state: the stored sub_active flag
\* is trusted, the expiry is not looked at.
recalc_trusts_flag(dev, now) ==
    IF dev.dev_mode
    THEN [dev EXCEPT !.sub_active = TRUE, !.sub_expires_at = None]
    ELSE dev

\* Faulty variant of recalc_subscription_state: the dev_mode branch is
\* missing.
recalc_without_dev_mode(dev, now) ==
    IF dev.sub_active
         /\ from_iso(dev.sub_expires_at) # None
         /\ now > from_iso(dev.sub_expires_at)
    THEN [dev EXCEPT !.sub_active = FALSE, !.sub_expires_at = None]
    ELSE dev

\* recalc_subscription_state(dev): dev after the call.
recalc_subscription_state(dev, now) ==
    IF dev.dev_mode
    THEN [dev EXCEPT !.sub_active = TRUE, !.sub_expires_at = None]
    ELSE IF dev.sub_active
              /\ from_iso(dev.sub_expires_at) # None
              /\ now > from_iso(dev.sub_expires_at)
         THEN [dev EXCEPT !.sub_active = FALSE, !.sub_expires_at = None]
         ELSE dev

\* Faulty variant of snapshot: locked looks at free_left only.
snapshot_locked_by_free(dev, now) ==
    LET r      == recalc_subscription_state(dev, now)
        active == r.sub_active \/ r.dev_mode
    IN  [ device_id     |-> r.device_id,
          active        |-> active,
          expires_at    |-> r.sub_expires_at,
          free_left     |-> r.free_left,
          locked        |-> r.free_left <= 0,
          dev_mode      |-> r.dev_mode,
          last_tx       |-> r.last_tx,
          last_comment  |-> r.last_comment,
          selected_plan |-> r.selected_plan,
          is_premium    |-> active,
          sub_until     |-> r.sub_expires_at ]

\* snapshot(dev): the returned dict.
snapshot(dev, now) ==
    LET r      == recalc_subscription_state(dev, now)
        active == r.sub_active \/ r.dev_mode
    IN  [ device_id     |-> r.device_id,
          active        |-> active,
          expires_at    |-> r.sub_expires_at,
          free_left     |-> r.free_left,
          locked        |-> (~active) /\ (r.free_left <= 0),
          dev_mode      |-> r.dev_mode,
          last_tx       |-> r.last_tx,
          last_comment  |-> r.last_comment,
          selected_plan |-> r.selected_plan,
          is_premium    |-> active,
          sub_until     |-> r.sub_expires_at ]

\* ------------------------------------------------------------ request data
\* str.strip() on the strings the requests below carry.
strip(s) == IF s = " " THEN "" ELSE s

\* str.isdigit() and int() on the plan_days form values used below.
isdigit(s) == \E n \in 0..9 : ToString(n) = s
int(s)     == CHOOSE n \in 0..9 : ToString(n) = s

\* device_id values a client sends, and values the operator's form sends
\* (admin_action does not strip or check its device_id).
ClientIds == Devices \cup {" "}
AdminIds  == Devices

\* "consumed" values a client sends
Consumed == {-1, 0, 1, 4}

\* action names of the operator's form; "bogus" is matched by no branch
GrantDays == [grant30 |-> 30, grant7 |-> 7, grant3 |-> 3]
Acts == {"grant_custom", "grant30", "grant7", "grant3", "remove_sub",
         "toggle_dev", "reset_free", "zero_free", "delete", "clear_tx",
         "bogus"}
PlanDaysForm == {"0", "1", "x", ""}

\* JSON bodies sent to /api/verify_payment (without the device_id)
NoPayload == [tx |-> "", comment |-> "", plan |-> "", plan_days |-> None,
              plan_price |-> ""]
Payloads ==
    { [tx |-> "abc", comment |-> "", plan |-> "30 days", plan_days |-> 30,
       plan_price |-> "10"],
      [tx |-> "", comment |-> "paid", plan |-> "", plan_days |-> None,
       plan_price |-> ""],
      [tx |-> "x", comment |-> "", plan |-> "bogus", plan_days |-> 99,
       plan_price |-> "1"],
      NoPayload }

\* DEFAULT_CONFIG["prices"]: what load_config() returns while CONFIG_FILE
\* does not exist. The plan keys "3 дня", "7 дней", "30 дней" are written
\* "3 days", "7 days", "30 days".
DEFAULT_CONFIG ==
    [ p \in {"3 days", "7 days", "30 days"} |->
        CASE p = "3 days"  -> [days |-> 3,  usd |-> 3]
          [] p = "7 days"  -> [days |-> 7,  usd |-> 6]
          [] p = "30 days" -> [days |-> 30, usd |-> 10] ]

\* --------------------------------------------------------- worker records
NoSnap == snapshot(NewDevice("", 0), 0)

IdleWorker ==
    [ pc        |-> "idle",    \* idle | loaded | done
      route     |-> "",        \* the endpoint being served
      device_id |-> "",
      act       |-> "",        \* admin_action: the action
      plan_days |-> "",        \* admin_action: the plan_days form field
      consumed  |-> 0,         \* update_free_count: consumed, as received
      pre       |-> NewDevice("", 0),  \* what ensure_device() returned
      data      |-> << >>,     \* the private dict handed to save_db()
      at        |-> None,      \* now_utc() during the private computation
      snap_at   |-> None,      \* now_utc() inside that snapshot()
      code      |-> 0,         \* HTTP status of the response
      page      |-> << >>,     \* arguments of the rendered template
      resp      |-> NoSnap ]   \* body of the response

\* A response is delivered (Return) before anything else happens: a slot in
\* "done" only shows the response of the step just taken.
Delivered == \A v \in Workers : workers[v].pc # "done"

\* The lowest idle slot takes the next request (slots are interchangeable).
Accepts(w) ==
    /\ nreq < MaxReq
    /\ Delivered
    /\ workers[w].pc = "idle"
    /\ \A v \in Workers : v < w => workers[v].pc # "idle"

\* A request answered before the store is read.
Answered(route, code) ==
    [IdleWorker EXCEPT !.pc = "done", !.route = route, !.code = code]

\* A request that has called load_db() and computed the dict to save.
Loaded(route, device_id, data) ==
    [IdleWorker EXCEPT !.pc = "loaded", !.route = route,
                       !.device_id = device_id,
                       !.pre = ensure_device(db, device_id, clock)[device_id],
                       !.data = data, !.at = clock]

\* ---------------------------------------------------------------- handlers
Init ==
    /\ db = << >>
    /\ clock = 0
    /\ config = DEFAULT_CONFIG
    /\ workers = [w \in Workers |-> IdleWorker]
    /\ nreq = 0

\* The clock advances on its own.
Tick ==
    /\ clock < MaxTime
    /\ Delivered
    /\ clock' = clock + 1
    /\ UNCHANGED <<db, config, workers, nreq>>

\* api_register_device up to its save_db call.
api_register_device(w, raw_id) ==
    LET device_id == strip(raw_id) IN
    /\ Accepts(w)
    /\ nreq' = nreq + 1
    /\ workers' = [workers EXCEPT ![w] =
         IF device_id = ""
         THEN Answered("register_device", 400)
         ELSE Loaded("register_device", device_id,
                     ensure_device(db, device_id, clock))]
    /\ UNCHANGED <<db, clock, config>>

\* api_device_status up to its save_db call.
api_device_status(w, raw_id) ==
    LET device_id == strip(raw_id) IN
    /\ Accepts(w)
    /\ nreq' = nreq + 1
    /\ workers' = [workers EXCEPT ![w] =
         IF device_id = ""
         THEN Answered("device_status", 400)
         ELSE Loaded("device_status", device_id,
                     ensure_device(db, device_id, clock))]
    /\ UNCHANGED <<db, clock, config>>

\* api_subscription_status up to its save_db call: snapshot() runs before
\* the save, so what recalc_subscription_state changed is saved.
api_subscription_status(w, raw_id) ==
    LET device_id == strip(raw_id)
        data      == ensure_device(db, device_id, clock)
        dev       == data[device_id]
    IN
    /\ Accepts(w)
    /\ nreq' = nreq + 1
    /\ workers' = [workers EXCEPT ![w] =
         IF device_id = ""
         THEN Answered("subscriptions_status", 400)
         ELSE [Loaded("subscriptions_status", device_id,
                      [data EXCEPT ![device_id] =
                           recalc_subscription_state(dev, clock)])
               EXCEPT !.snap_at = clock,
                      !.resp = snapshot(dev, clock)]]
    /\ UNCHANGED <<db, clock, config>>

\* Faulty variant of update_free_count: consumed is used as received, a
\* value <= 0 is not raised to 1.
update_free_count_unclamped(dev, consumed_in, now) ==
    LET r      == recalc_subscription_state(dev, now)
        active == r.sub_active \/ r.dev_mode
    IN  IF ~active
        THEN [r EXCEPT !.free_left =
                 IF r.free_left - consumed_in > 0
                 THEN r.free_left - consumed_in ELSE 0]
        ELSE r

\* Faulty variant of update_free_count: no floor at 0.
update_free_count_no_floor(dev, consumed_in, now) ==
    LET consumed == IF consumed_in <= 0 THEN 1 ELSE consumed_in
        r        == recalc_subscription_state(dev, now)
        active   == r.sub_active \/ r.dev_mode
    IN  IF ~active
        THEN [r EXCEPT !.free_left = r.free_left - consumed]
        ELSE r

\* Faulty variant of update_free_count: the active check is missing.
update_free_count_always(dev, consumed_in, now) ==
    LET consumed == IF consumed_in <= 0 THEN 1 ELSE consumed_in
        r        == recalc_subscription_state(dev, now)
    IN  [r EXCEPT !.free_left =
             IF r.free_left - consumed > 0
             THEN r.free_left - consumed ELSE 0]

\* api_update_free_count, lines 414-424: the record after the call.
update_free_count(dev, consumed_in, now) ==
    LET consumed == IF consumed_in <= 0 THEN 1 ELSE consumed_in
        r        == recalc_subscription_state(dev, now)
        active   == r.sub_active \/ r.dev_mode
    IN  IF ~active
        THEN [r EXCEPT !.free_left =
                 IF r.free_left - consumed > 0
                 THEN r.free_left - consumed ELSE 0]
        ELSE r

\* api_update_free_count up to its save_db call.
api_update_free_count(w, raw_id, consumed) ==
    LET device_id == strip(raw_id)
        data      == ensure_device(db, device_id, clock)
        dev       == update_free_count(data[device_id], consumed, clock)
    IN
    /\ Accepts(w)
    /\ nreq' = nreq + 1
    /\ workers' = [workers EXCEPT ![w] =
         IF device_id = ""
         THEN Answered("update_free_count", 400)
         ELSE [Loaded("update_free_count", device_id,
                      [data EXCEPT ![device_id] = dev])
               EXCEPT !.consumed = consumed,
                      !.resp = [NoSnap EXCEPT
                                  !.free_left = dev.free_left,
                                  !.active = dev.sub_active \/ dev.dev_mode]]]
    /\ UNCHANGED <<db, clock, config>>

\* Faulty variant of verify_payment: a claim that carries a comment
\* switches developer mode on.
verify_payment_unlocks(dev, payload, now) ==
    LET rec == [ tx         |-> OrNone(strip(payload.tx)),
                 comment    |-> OrNone(strip(payload.comment)),
                 plan       |-> OrNone(strip(payload.plan)),
                 plan_days  |-> payload.plan_days,
                 plan_price |-> OrNone(strip(payload.plan_price)),
                 at         |-> to_iso(now),
                 status     |-> "pending" ]
        unlock == rec.comment # NoneStr
    IN  [dev EXCEPT !.tx_history      = Append(dev.tx_history, rec),
                    !.last_tx         = rec.tx,
                    !.last_comment    = rec.comment,
                    !.selected_plan   = rec.plan,
                    !.last_plan_days  = rec.plan_days,
                    !.last_plan_price = rec.plan_price,
                    !.dev_mode        = dev.dev_mode \/ unlock,
                    !.sub_active      = dev.sub_active \/ unlock,
                    !.sub_expires_at  = IF unlock THEN None
                                        ELSE dev.sub_expires_at]

\* api_verify_payment, lines 450-465: the record after the call.
verify_payment(dev, payload, now) ==
    LET rec == [ tx         |-> OrNone(strip(payload.tx)),
                 comment    |-> OrNone(strip(payload.comment)),
                 plan       |-> OrNone(strip(payload.plan)),
                 plan_days  |-> payload.plan_days,
                 plan_price |-> OrNone(strip(payload.plan_price)),
                 at         |-> to_iso(now),
                 status     |-> "pending" ]
    IN  [dev EXCEPT !.tx_history      = Append(dev.tx_history, rec),
                    !.last_tx         = rec.tx,
                    !.last_comment    = rec.comment,
                    !.selected_plan   = rec.plan,
                    !.last_plan_days  = rec.plan_days,
                    !.last_plan_price = rec.plan_price]

\* api_verify_payment up to its save_db call.
api_verify_payment(w, raw_id, payload) ==
    LET device_id == strip(raw_id)
        data      == ensure_device(db, device_id, clock)
    IN
    /\ Accepts(w)
    /\ nreq' = nreq + 1
    /\ workers' = [workers EXCEPT ![w] =
         IF device_id = ""
         THEN Answered("verify_payment", 400)
         ELSE IF strip(payload.tx) = "" /\ strip(payload.comment) = ""
         THEN Answered("verify_payment", 400)
         ELSE Loaded("verify_payment", device_id,
                     [data EXCEPT ![device_id] =
                          verify_payment(data[device_id], payload, clock)])]
    /\ UNCHANGED <<db, clock, config>>

\* Faulty variant of admin_action_dev: switching developer mode off also
\* ends the subscription.
admin_action_dev_toggle_off_ends(dev, act, plan_days, now) ==
    CASE act = "grant_custom" ->
           IF plan_days # "" /\ isdigit(plan_days)
           THEN [dev EXCEPT !.sub_active = TRUE,
                            !.sub_expires_at =
                                to_iso(now + timedelta(int(plan_days)))]
           ELSE dev
      [] act \in DOMAIN GrantDays ->
           [dev EXCEPT !.sub_active = TRUE,
                       !.sub_expires_at =
                           to_iso(now + timedelta(GrantDays[act]))]
      [] act = "remove_sub" ->
           [dev EXCEPT !.sub_active = FALSE, !.sub_expires_at = None]
      [] act = "toggle_dev" ->
           IF ~dev.dev_mode
           THEN [dev EXCEPT !.dev_mode = TRUE, !.sub_active = TRUE,
                            !.sub_expires_at = None]
           ELSE [dev EXCEPT !.dev_mode = FALSE, !.sub_active = FALSE,
                            !.sub_expires_at = None]
      [] act = "reset_free" -> [dev EXCEPT !.free_left = INITIAL_FREE]
      [] act = "zero_free"  -> [dev EXCEPT !.free_left = 0]
      [] act = "clear_tx" ->
           [dev EXCEPT !.last_tx = NoneStr, !.last_comment = NoneStr,
                       !.selected_plan = NoneStr, !.last_plan_days = None,
                       !.last_plan_price = NoneStr, !.tx_history = << >>]
      [] OTHER -> dev

\* Faulty variant of admin_action_dev: reset_free adds INITIAL_FREE to the
\* balance instead of setting it.
admin_action_dev_reset_adds(dev, act, plan_days, now) ==
    CASE act = "grant_custom" ->
           IF plan_days # "" /\ isdigit(plan_days)
           THEN [dev EXCEPT !.sub_active = TRUE,
                            !.sub_expires_at =
                                to_iso(now + timedelta(int(plan_days)))]
           ELSE dev
      [] act \in DOMAIN GrantDays ->
           [dev EXCEPT !.sub_active = TRUE,
                       !.sub_expires_at =
                           to_iso(now + timedelta(GrantDays[act]))]
      [] act = "remove_sub" ->
           [dev EXCEPT !.sub_active = FALSE, !.sub_expires_at = None]
      [] act = "toggle_dev" ->
           IF ~dev.dev_mode
           THEN [dev EXCEPT !.dev_mode = TRUE, !.sub_active = TRUE,
                            !.sub_expires_at = None]
           ELSE [dev EXCEPT !.dev_mode = FALSE]
      [] act = "reset_free" ->
           [dev EXCEPT !.free_left = dev.free_left + INITIAL_FREE]
      [] act = "zero_free"  -> [dev EXCEPT !.free_left = 0]
      [] act = "clear_tx" ->
           [dev EXCEPT !.last_tx = NoneStr, !.last_comment = NoneStr,
                       !.selected_plan = NoneStr, !.last_plan_days = None,
                       !.last_plan_price = NoneStr, !.tx_history = << >>]
      [] OTHER -> dev

\* Faulty variant of admin_action_dev: a grant extends a running
\* subscription instead of replacing its expiry.
admin_action_dev_stacking(dev, act, plan_days, now) ==
    LET base == IF dev.sub_active /\ dev.sub_expires_at # None
                THEN dev.sub_expires_at ELSE now
    IN
    CASE act = "grant_custom" ->
           IF plan_days # "" /\ isdigit(plan_days)
           THEN [dev EXCEPT !.sub_active = TRUE,
                            !.sub_expires_at =
                                to_iso(base + timedelta(int(plan_days)))]
           ELSE dev
      [] act \in DOMAIN GrantDays ->
           [dev EXCEPT !.sub_active = TRUE,
                       !.sub_expires_at =
                           to_iso(base + timedelta(GrantDays[act]))]
      [] act = "remove_sub" ->
           [dev EXCEPT !.sub_active = FALSE, !.sub_expires_at = None]
      [] act = "toggle_dev" ->
           IF ~dev.dev_mode
           THEN [dev EXCEPT !.dev_mode = TRUE, !.sub_active = TRUE,
                            !.sub_expires_at = None]
           ELSE [dev EXCEPT !.dev_mode = FALSE]
      [] act = "reset_free" -> [dev EXCEPT !.free_left = INITIAL_FREE]
      [] act = "zero_free"  -> [dev EXCEPT !.free_left = 0]
      [] act = "clear_tx" ->
           [dev EXCEPT !.last_tx = NoneStr, !.last_comment = NoneStr,
                       !.selected_plan = NoneStr, !.last_plan_days = None,
                       !.last_plan_price = NoneStr, !.tx_history = << >>]
      [] OTHER -> dev

\* admin_action, lines 304-344: the record after the branch taken for act
\* (the delete branch removes the record instead, see admin_action_data).
admin_action_dev(dev, act, plan_days, now) ==
    CASE act = "grant_custom" ->
           IF plan_days # "" /\ isdigit(plan_days)
           THEN [dev EXCEPT !.sub_active = TRUE,
                            !.sub_expires_at =
                                to_iso(now + timedelta(int(plan_days)))]
           ELSE dev
      [] act \in DOMAIN GrantDays ->
           [dev EXCEPT !.sub_active = TRUE,
                       !.sub_expires_at =
                           to_iso(now + timedelta(GrantDays[act]))]
      [] act = "remove_sub" ->
           [dev EXCEPT !.sub_active = FALSE, !.sub_expires_at = None]
      [] act = "toggle_dev" ->
           IF ~dev.dev_mode
           THEN [dev EXCEPT !.dev_mode = TRUE, !.sub_active = TRUE,
                            !.sub_expires_at = None]
           ELSE [dev EXCEPT !.dev_mode = FALSE]
      [] act = "reset_free" -> [dev EXCEPT !.free_left = INITIAL_FREE]
      [] act = "zero_free"  -> [dev EXCEPT !.free_left = 0]
      [] act = "clear_tx" ->
           [dev EXCEPT !.last_tx = NoneStr, !.last_comment = NoneStr,
                       !.selected_plan = NoneStr, !.last_plan_days = None,
                       !.last_plan_price = NoneStr, !.tx_history = << >>]
      [] OTHER -> dev

\* admin_action, lines 301-346: the dict handed to save_db.
admin_action_data(d, act, device_id, plan_days, now) ==
    LET data == ensure_device(d, device_id, now) IN
    IF act = "delete"
    THEN [k \in DOMAIN data \ {device_id} |-> data[k]]
    ELSE [data EXCEPT ![device_id] =
              admin_action_dev(data[device_id], act, plan_days, now)]

\* admin_action up to its save_db call. is_admin is session["is_admin"] of
\* the session cookie the request carries; require_admin aborts with 401.
admin_action(w, is_admin, act, device_id, plan_days) ==
    /\ Accepts(w)
    /\ nreq' = nreq + 1
    /\ workers' = [workers EXCEPT ![w] =
         IF ~is_admin
         THEN Answered("admin_action", 401)
         ELSE [Loaded("admin_action", device_id,
                      admin_action_data(db, act, device_id, plan_days, clock))
               EXCEPT !.act = act, !.plan_days = plan_days]]
    /\ UNCHANGED <<db, clock, config>>

\* The price rows the operator posts to /admin/config: price_key_i,
\* price_value_i, price_desc_i, price_days_i of one row (the wallets of the
\* form are left out, no handler of the entitlement reads them).
ConfigForms ==
    { {},
      { [key |-> "30 days", value |-> "5", desc |-> "month", days |-> "7"] },
      { [key |-> "7 days",  value |-> "6", desc |-> "week",  days |-> "x"] },
      { [key |-> "3 days",  value |-> "x", desc |-> "try",   days |-> "3"],
        [key |-> "30 days", value |-> "9", desc |-> "",      days |-> "9"] } }

\* admin_config, lines 247-265: the prices dict built from the posted rows.
\* A row without key, value or description is skipped, so is a row whose
\* value float() rejects; price_days that is not a number becomes 30.
form_prices(form) ==
    LET ok == { r \in form : /\ strip(r.key) # ""
                             /\ strip(r.value) # ""
                             /\ strip(r.desc) # ""
                             /\ isdigit(strip(r.value)) }
    IN  [ k \in { strip(r.key) : r \in ok } |->
            LET r == CHOOSE r \in ok : strip(r.key) = k
            IN  [ days |-> IF isdigit(strip(r.days))
                           THEN int(strip(r.days)) ELSE 30,
                  usd  |-> int(strip(r.value)) ] ]

\* admin_config: a GET renders the stored config, a POST replaces the
\* prices by those of the form and calls save_config.
admin_config(w, is_admin, method, form) ==
    /\ Accepts(w)
    /\ nreq' = nreq + 1
    /\ workers' = [workers EXCEPT ![w] =
         IF ~is_admin
         THEN Answered("admin_config", 401)
         ELSE IF method = "POST"
         THEN Answered("admin_config", 302)
         ELSE [Answered("admin_config", 200)
               EXCEPT !.page = [config |-> config]]]
    /\ config' = IF is_admin /\ method = "POST"
                 THEN form_prices(form) ELSE config
    /\ UNCHANGED <<db, clock>>

\* A page is requested: the handlers of the HTML pages write nothing, so
\* they are not counted in nreq.
Views(w) ==
    /\ Delivered
    /\ workers[w].pc = "idle"
    /\ \A v \in Workers : v < w => workers[v].pc # "idle"

\* sort_key of admin_dashboard: active or developer-mode records first,
\* then by last_seen.
sort_key(x) == <<IF x.dev_mode \/ x.sub_active THEN 0 ELSE 1, x.last_seen>>

KeyLeq(a, b) == a[1] < b[1] \/ (a[1] = b[1] /\ a[2] <= b[2])

\* list(devices.values()) after devices.sort(key=sort_key)
SortedDevices(d) ==
    LET n == Cardinality(DOMAIN d)
        s == CHOOSE f \in [1..n -> DOMAIN d] :
                 /\ \A i, j \in 1..n : i # j => f[i] # f[j]
                 /\ \A i, j \in 1..n :
                        i < j => KeyLeq(sort_key(d[f[i]]), sort_key(d[f[j]]))
    IN  [i \in 1..n |-> d[s[i]]]

\* admin_dashboard: the listing shows the records as they are stored.
admin_dashboard(w, is_admin) ==
    /\ Views(w)
    /\ workers' = [workers EXCEPT ![w] =
         IF ~is_admin
         THEN Answered("admin_dashboard", 401)
         ELSE [IdleWorker EXCEPT
                 !.pc = "done", !.route = "admin_dashboard", !.code = 200,
                 !.at = clock,
                 !.page = [devices |-> SortedDevices(db),
                           prices  |-> config]]]
    /\ UNCHANGED <<db, clock, config, nreq>>

\* Sum of len(tx_history) over the records of d whose keys are in ids.
RECURSIVE total_tx(_, _)
total_tx(d, ids) ==
    IF ids = {} THEN 0
    ELSE LET k == CHOOSE k \in ids : TRUE
         IN  Len(d[k].tx_history) + total_tx(d, ids \ {k})

\* index_page: recalc_subscription_state runs on the loaded records, the
\* statistics are rendered and nothing is saved.
index_page(w) ==
    LET devices == [k \in DOMAIN db |->
                        recalc_subscription_state(db[k], clock)]
        stats == [ total_devices |-> Cardinality(DOMAIN devices),
                   active_subscriptions |->
                       Cardinality({k \in DOMAIN devices :
                           devices[k].sub_active \/ devices[k].dev_mode}),
                   dev_mode |->
                       Cardinality({k \in DOMAIN devices :
                           devices[k].dev_mode}),
                   total_tx |-> total_tx(devices, DOMAIN devices) ]
    IN
    /\ Views(w)
    /\ workers' = [workers EXCEPT ![w] =
         [IdleWorker EXCEPT !.pc = "done", !.route = "index_page",
                            !.code = 200, !.at = clock,
                            !.page = [stats |-> stats]]]
    /\ UNCHANGED <<db, clock, config, nreq>>

\* Routes whose handler calls snapshot() after save_db().
SnapshotAfterSave == {"register_device", "device_status", "verify_payment"}

\* save_db(data) of a handler, and the rest of the handler up to its
\* response.
save_db(w) ==
    LET h   == workers[w]
        dev == h.data[h.device_id]
    IN
    /\ h.pc = "loaded"
    /\ Delivered
    /\ db' = h.data
    /\ workers' = [workers EXCEPT ![w] =
         IF h.route \in SnapshotAfterSave
         THEN [h EXCEPT !.pc = "done", !.code = 200,
                        !.snap_at = clock, !.resp = snapshot(dev, clock)]
         ELSE [h EXCEPT !.pc = "done",
                        !.code = IF h.route = "admin_action"
                                 THEN 302 ELSE 200]]
    /\ UNCHANGED <<clock, config, nreq>>

\* The response has been sent; the slot is free again.
Return(w) ==
    /\ workers[w].pc = "done"
    /\ workers' = [workers EXCEPT ![w] = IdleWorker]
    /\ UNCHANGED <<db, clock, config, nreq>>

Next ==
    \/ Tick
    \/ \E w \in Workers, id \in ClientIds : api_register_device(w, id)
    \/ \E w \in Workers, id \in ClientIds : api_device_status(w, id)
    \/ \E w \in Workers, id \in ClientIds : api_subscription_status(w, id)
    \/ \E w \in Workers, id \in ClientIds, c \in Consumed :
           api_update_free_count(w, id, c)
    \/ \E w \in Workers, id \in ClientIds, p \in Payloads :
           api_verify_payment(w, id, p)
    \/ \E w \in Workers, is_admin \in BOOLEAN, id \in AdminIds, act \in Acts :
           \E pd \in (IF act = "grant_custom" THEN PlanDaysForm ELSE {""}) :
               admin_action(w, is_admin, act, id, pd)
    \/ \E w \in Workers : save_db(w)
    \/ \E w \in Workers : Return(w)

Spec == Init /\ [][Next]_vars

\* A fresh record, then nothing but update_free_count(d1, consumed = 1).
InitConsume ==
    /\ db = ("d1" :> NewDevice("d1", 0))
    /\ clock = 0
    /\ config = DEFAULT_CONFIG
    /\ workers = [w \in Workers |-> IdleWorker]
    /\ nreq = 0

NextConsume ==
    \/ Tick
    \/ \E w \in Workers : api_update_free_count(w, "d1", 1)
    \/ \E w \in Workers : save_db(w)
    \/ \E w \in Workers : Return(w)

SpecConsume == InitConsume /\ [][NextConsume]_vars

\* The operator grants d1 a subscription of 0 or 1 days; afterwards the
\* clock runs, the pages are viewed, and the client of d1 may or may not ask
\* for its subscription status.
NextSweep ==
    \/ Tick
    \/ \E w \in Workers, pd \in {"0", "1"} :
           admin_action(w, TRUE, "grant_custom", "d1", pd)
    \/ \E w \in Workers : api_subscription_status(w, "d1")
    \/ \E w \in Workers, is_admin \in BOOLEAN : admin_dashboard(w, is_admin)
    \/ \E w \in Workers : index_page(w)
    \/ \E w \in Workers : save_db(w)
    \/ \E w \in Workers : Return(w)

\* Time passes, a handler that has started runs to its response, and the
\* operator keeps looking at the dashboard. Nothing obliges a client to
\* send a request.
FairSweep ==
    /\ WF_vars(Tick)
    /\ \A w \in Workers : WF_vars(save_db(w)) /\ WF_vars(Return(w))
    /\ WF_vars(\E w \in Workers : admin_dashboard(w, TRUE))

SpecSweep == Init /\ [][NextSweep]_vars /\ FairSweep

\* Claims of d1 that name a plan of the catalog: one sends the days and
\* the price of the catalog, one sends its own.
CatalogPayloads ==
    { [tx |-> "abc", comment |-> "", plan |-> "30 days", plan_days |-> 30,
       plan_price |-> "10"],
      [tx |-> "t", comment |-> "", plan |-> "7 days", plan_days |-> 99,
       plan_price |-> "1"] }

\* The client of d1 submits claims while the operator edits the catalog.
NextCatalog ==
    \/ Tick
    \/ \E w \in Workers, p \in CatalogPayloads :
           api_verify_payment(w, "d1", p)
    \/ \E w \in Workers, is_admin \in BOOLEAN, method \in {"GET", "POST"},
          form \in ConfigForms : admin_config(w, is_admin, method, form)
    \/ \E w \in Workers : save_db(w)
    \/ \E w \in Workers : Return(w)

SpecCatalog == Init /\ [][NextCatalog]_vars

\* Two devices send requests at the same time: consumes and claims of d1
\* and d2, and the operator's grants for them.
TwoDevices == {"d1", "d2"}

NextTwoDevices ==
    \/ \E w \in Workers, id \in TwoDevices : api_update_free_count(w, id, 1)
    \/ \E w \in Workers, id \in TwoDevices :
           api_verify_payment(w, id, [NoPayload EXCEPT !.tx = "abc"])
    \/ \E w \in Workers, id \in TwoDevices :
           admin_action(w, TRUE, "grant30", id, "")
    \/ \E w \in Workers : save_db(w)
    \/ \E w \in Workers : Return(w)

SpecTwoDevices == Init /\ [][NextTwoDevices]_vars

\* ------------------------------------------------------------ observations
\* The handler in slot w has called snapshot() and answered with it.
HasSnap(h) ==
    /\ h.pc = "done"
    /\ h.code = 200
    /\ h.route \in SnapshotAfterSave \cup {"subscriptions_status"}

\* The record snapshot() was called on, as stored before the call.
SnapIn(h) ==
    IF h.route = "subscriptions_status" THEN h.pre ELSE h.data[h.device_id]

\* The handler in slot w has run its private computation on a record.
Computed(h, route) ==
    /\ h.pc \in {"loaded", "done"}
    /\ h.route = route
    /\ h.code \notin {400, 401}

\* The code's notion of "active now": developer mode, or an active
\* subscription whose expiry, if any, is not earlier than now.
EffActive(dev, now) ==
    \/ dev.dev_mode
    \/ /\ dev.sub_active
       /\ (dev.sub_expires_at = None \/ dev.sub_expires_at >= now)

IsPrefix(s, t) ==
    /\ Len(s) <= Len(t)
    /\ \A i \in 1..Len(s) : s[i] = t[i]

\* The step is the save_db of the handler in slot w.
Saves(w) == workers[w].pc = "loaded" /\ workers'[w].pc = "done"

\* ------------------------------------------------------------------ claims
Max0(n) == IF n > 0 THEN n ELSE 0

\* Whole seconds of an instant, computed without to_iso.
WholeSeconds(t) == (t \div TicksPerSec) * TicksPerSec

\* C1 (under SpecConsume): once every one of the N update_free_count(d1, 1)
\* requests begun on the fresh record has completed, the stored free_left
\* is max(0, INITIAL_FREE - N): no decrement is lost.
C1_NoLostDecrement ==
    (\A w \in Workers : workers[w].pc # "loaded")
        => db["d1"].free_left = Max0(INITIAL_FREE - nreq)

\* C2: every stored record, and every record a handler is about to store,
\* has free_left >= 0.
C2_FreeNonNegative ==
    /\ \A d \in DOMAIN db : db[d].free_left >= 0
    /\ \A w \in Workers : \A d \in DOMAIN workers[w].data :
           workers[w].data[d].free_left >= 0

\* C2 witness: a consume of more than the balance has been stored.
C2_Witness ==
    \E w \in Workers :
        LET h == workers[w] IN
        /\ h.pc = "done"
        /\ h.route = "update_free_count"
        /\ h.code = 200
        /\ h.consumed > h.pre.free_left
        /\ h.pre.free_left > 0
        /\ db[h.device_id].free_left = 0

C4_DevModeDominates ==
    \A w \in Workers :
        LET h == workers[w] IN
        (HasSnap(h) /\ SnapIn(h).dev_mode) =>
            /\ h.resp.active
            /\ h.resp.expires_at = None
            /\ h.resp.dev_mode

\* C4 witness: a snapshot of a developer-mode record whose subscription the
\* operator has revoked.
C4_Witness ==
    \E w \in Workers :
        LET h == workers[w] IN
        /\ HasSnap(h)
        /\ SnapIn(h).dev_mode
        /\ ~SnapIn(h).sub_active
        /\ h.resp.active

\* C5: update_free_count leaves free_left of the record as it was when the
\* device is active at the time of the call, for any consumed: the record it
\* saves, the free_left it answers and the record in the store after its
\* save all carry the free_left it loaded.
C5_ActiveConsumeKeepsFree ==
    \A w \in Workers :
        LET h == workers[w] IN
        (Computed(h, "update_free_count") /\ EffActive(h.pre, h.at)) =>
            /\ h.data[h.device_id].free_left = h.pre.free_left
            /\ h.resp.free_left = h.pre.free_left
            /\ h.resp.active
            /\ h.pc = "done" => db[h.device_id].free_left = h.pre.free_left

\* C5 witness: a consume on a device with a running (granted) subscription
\* and free uses left has been stored.
C5_Witness ==
    \E w \in Workers :
        LET h == workers[w] IN
        /\ h.pc = "done"
        /\ h.route = "update_free_count"
        /\ h.code = 200
        /\ ~h.pre.dev_mode
        /\ h.pre.sub_expires_at # None
        /\ EffActive(h.pre, h.at)
        /\ h.pre.free_left > 0
        /\ db[h.device_id].free_left = h.pre.free_left

\* C6: in every snapshot, locked is TRUE exactly when the snapshot is not
\* active and free_left is 0; a record with free_left = 0 and a granted
\* subscription is not locked up to its expiry, and once now is past the
\* expiry it is inactive and locked again, with free_left still 0.
C6_LockedIffInactiveAndEmpty ==
    \A w \in Workers :
        LET h   == workers[w]
            dev == SnapIn(h)
        IN
        HasSnap(h) =>
            /\ h.resp.locked = (~h.resp.active /\ h.resp.free_left = 0)
            /\ h.resp.free_left = dev.free_left
            /\ ( /\ dev.free_left = 0
                 /\ ~dev.dev_mode
                 /\ dev.sub_active
                 /\ dev.sub_expires_at # None )
               => IF h.snap_at > dev.sub_expires_at
                  THEN ~h.resp.active /\ h.resp.locked
                  ELSE h.resp.active /\ ~h.resp.locked

\* C6 witness: a snapshot of a record with free_left = 0 whose granted
\* subscription has run out.
C6_Witness ==
    \E w \in Workers :
        LET h   == workers[w]
            dev == SnapIn(h)
        IN
        /\ HasSnap(h)
        /\ dev.free_left = 0
        /\ ~dev.dev_mode
        /\ dev.sub_active
        /\ dev.sub_expires_at # None
        /\ h.snap_at > dev.sub_expires_at
        /\ h.resp.locked

\* The operator's grants: the handler in slot w has computed a grant of
\* d days.
Grants(h, d) ==
    /\ Computed(h, "admin_action")
    /\ \/ h.act \in DOMAIN GrantDays /\ d = GrantDays[h.act]
       \/ h.act = "grant_custom" /\ ToString(d) = h.plan_days

\* C7 as stated: after a grant of d days computed at time t the record is
\* active with sub_expires_at = t + d days.
C7_GrantExpiryExact ==
    \A w \in Workers : \A d \in 0..30 :
        LET h == workers[w] IN
        Grants(h, d) =>
            /\ h.data[h.device_id].sub_active
            /\ h.data[h.device_id].sub_expires_at = h.at + d * Day

\* C7 amended: after a grant of d days computed at time t the record is
\* active with sub_expires_at = the whole seconds of t + d days, whatever
\* expiry earlier grants left (grants do not stack).
C7_GrantNotStacking ==
    \A w \in Workers : \A d \in 0..30 :
        LET h == workers[w] IN
        Grants(h, d) =>
            /\ h.data[h.device_id].sub_active
            /\ h.data[h.device_id].sub_expires_at
                   = WholeSeconds(h.at + d * Day)

\* C7 witness: a 30-day grant on a record that still carries the expiry of
\* an earlier 7-day grant has been stored.
C7_Witness ==
    \E w \in Workers :
        LET h == workers[w] IN
        /\ h.pc = "done"
        /\ Grants(h, 30)
        /\ h.pre.sub_active
        /\ h.pre.sub_expires_at # None
        /\ h.pre.sub_expires_at >= 7 * Day
        /\ h.pre.sub_expires_at < 30 * Day
        /\ db[h.device_id].sub_expires_at = WholeSeconds(h.at + 30 * Day)

\* C8: the save of a register / status request never changes free_left of
\* a record that is already stored (no reset to INITIAL_FREE), nor its
\* created_at.
GetOrCreate == {"register_device", "device_status", "subscriptions_status"}

C8_NoResetOnTouch ==
    [][ \A w \in Workers :
          LET d == workers[w].device_id IN
          ( /\ Saves(w)
            /\ workers[w].route \in GetOrCreate
            /\ d \in DOMAIN db )
          => /\ d \in DOMAIN db'
             /\ db'[d].free_left = db[d].free_left
             /\ db'[d].created_at = db[d].created_at ]_vars

\* C9: across every step other than the save of the operator's clear_tx or
\* delete, the stored tx_history of every device is a prefix of its
\* tx_history after the step.
ClearsHistory(w) ==
    /\ Saves(w)
    /\ workers[w].route = "admin_action"
    /\ workers[w].act \in {"clear_tx", "delete"}

C9_HistoryAppendOnly ==
    [][ (~ \E w \in Workers : ClearsHistory(w))
        => \A d \in DOMAIN db :
             /\ d \in DOMAIN db'
             /\ IsPrefix(db[d].tx_history, db'[d].tx_history) ]_vars

\* C10: an accepted verify_payment appends exactly one claim, with status
\* "pending", and leaves dev_mode, sub_active, sub_expires_at and free_left
\* of the record as they were; that record is what its save stores, and the
\* snapshot it returns for a record that was locked is locked.
LockedAt(dev, now) == ~EffActive(dev, now) /\ dev.free_left = 0

C10_ClaimGrantsNothing ==
    \A w \in Workers :
        LET h    == workers[w]
            post == h.data[h.device_id]
        IN
        Computed(h, "verify_payment") =>
            /\ Len(post.tx_history) = Len(h.pre.tx_history) + 1
            /\ IsPrefix(h.pre.tx_history, post.tx_history)
            /\ post.tx_history[Len(post.tx_history)].status = "pending"
            /\ post.dev_mode = h.pre.dev_mode
            /\ post.sub_active = h.pre.sub_active
            /\ post.sub_expires_at = h.pre.sub_expires_at
            /\ post.free_left = h.pre.free_left
            /\ h.pc = "done" => db[h.device_id] = post
            /\ (h.pc = "done" /\ LockedAt(h.pre, h.at))
                   => (h.resp.locked /\ ~h.resp.active)

\* C10 witness: a claim with a comment has been accepted for a locked
\* device, and the device is still locked.
C10_Witness ==
    \E w \in Workers :
        LET h == workers[w] IN
        /\ h.pc = "done"
        /\ h.route = "verify_payment"
        /\ h.code = 200
        /\ LockedAt(h.pre, h.at)
        /\ h.data[h.device_id].last_comment # NoneStr
        /\ h.resp.locked

\* C11: no accepted verify_payment carries a plan that is not a key of the
\* plan catalog: the record it computes names no plan or a plan of config,
\* so a claim with an unknown plan is rejected and appended nowhere.
C11_UnknownPlanRejected ==
    \A w \in Workers :
        LET h    == workers[w]
            post == h.data[h.device_id]
        IN
        Computed(h, "verify_payment") =>
            \/ post.selected_plan = NoneStr
            \/ post.selected_plan \in DOMAIN config

\* C12: an accepted verify_payment whose comment is the override value
\* computes a record with dev_mode = TRUE, sub_active = TRUE and
\* sub_expires_at = None, and the snapshot it returns shows the same. The
\* handler treats no comment specially; "paid" stands for the override
\* value.
C12_OverrideCommentUnlocks ==
    \A w \in Workers :
        LET h    == workers[w]
            post == h.data[h.device_id]
        IN
        (Computed(h, "verify_payment") /\ post.last_comment = "paid") =>
            /\ post.dev_mode
            /\ post.sub_active
            /\ post.sub_expires_at = None
            /\ h.pc = "done" =>
                   /\ h.resp.dev_mode
                   /\ h.resp.active
                   /\ h.resp.expires_at = None

\* The operator's request in h fails validation: no branch of admin_action
\* matches its action name, or it is a custom grant whose plan_days is not
\* a number.
FailsValidation(h) ==
    \/ h.act \notin (Acts \ {"bogus"})
    \/ h.act = "grant_custom" /\ ~(h.plan_days # "" /\ isdigit(h.plan_days))

\* C13: the step that answers an operator action sent without an operator
\* session (401), or one that fails validation, leaves the whole store as
\* it was.
C13_FailClosed ==
    [][ \A w \in Workers :
          LET h == workers'[w] IN
          ( /\ workers[w].pc # "done"
            /\ h.pc = "done"
            /\ h.route = "admin_action"
            /\ (h.code = 401 \/ FailsValidation(h)) )
          => db' = db ]_vars

\* device_id values of the requests of SpecEmptyId: the operator's form may
\* carry an empty device_id.
EmptyIds == Devices \cup {""}

\* The operator's form posts an empty or a real device_id, clients send
\* the same (register, consume, claim), on an empty store.
NextEmptyId ==
    \/ Tick
    \/ \E w \in Workers, id \in EmptyIds : api_register_device(w, id)
    \/ \E w \in Workers, id \in EmptyIds : api_device_status(w, id)
    \/ \E w \in Workers, id \in EmptyIds : api_update_free_count(w, id, 1)
    \/ \E w \in Workers, id \in EmptyIds, p \in Payloads :
           api_verify_payment(w, id, p)
    \/ \E w \in Workers, id \in EmptyIds,
          act \in {"grant30", "zero_free", "delete"} :
           admin_action(w, TRUE, act, id, "")
    \/ \E w \in Workers : save_db(w)
    \/ \E w \in Workers : Return(w)

SpecEmptyId == Init /\ [][NextEmptyId]_vars

\* C14 (under SpecEmptyId): no record is stored, or about to be stored,
\* under the empty device_id, and a request whose device_id is empty is
\* answered with an error.
C14_NoEmptyIdentifier ==
    /\ "" \notin DOMAIN db
    /\ \A w \in Workers :
           LET h == workers[w] IN
           /\ "" \notin DOMAIN h.data
           /\ (h.pc # "idle" /\ h.device_id = "") => h.code \in {400, 401}

\* The subscription stored in dev ran out before now.
Expired(dev, now) ==
    /\ ~dev.dev_mode
    /\ dev.sub_active
    /\ dev.sub_expires_at # None
    /\ dev.sub_expires_at < now

\* C15: a status read hands to save_db the subscription fields it loaded,
\* and a snapshot taken after the expiry differs from the stored record in
\* active (and locked) only: expires_at, free_left and dev_mode are the
\* stored ones.
C15_StatusReadIsPure ==
    \A w \in Workers :
        LET h    == workers[w]
            post == h.data[h.device_id]
        IN
        /\ (\E r \in {"device_status", "subscriptions_status"} :
                Computed(h, r)) =>
               /\ post.sub_active = h.pre.sub_active
               /\ post.sub_expires_at = h.pre.sub_expires_at
        /\ (HasSnap(h) /\ Expired(SnapIn(h), h.snap_at)) =>
               /\ ~h.resp.active
               /\ h.resp.expires_at = SnapIn(h).sub_expires_at
               /\ h.resp.free_left = SnapIn(h).free_left
               /\ h.resp.dev_mode = SnapIn(h).dev_mode

\* C16: the save of an operator action that names a device_id without a
\* stored record leaves the store as it was: no record appears for it.
C16_UnknownDeviceNoOp ==
    [][ \A w \in Workers :
          ( /\ Saves(w)
            /\ workers[w].route = "admin_action"
            /\ workers[w].device_id \notin DOMAIN db )
          => db' = db ]_vars

\* C17: a record with dev_mode off whose stored sub_active is still TRUE
\* and whose sub_expires_at is earlier than now is never treated as active:
\* every snapshot of it reports active = FALSE, and update_free_count
\* decrements its free_left (and stores the subscription as ended).
C17_StaleFlagNotTrusted ==
    \A w \in Workers :
        LET h    == workers[w]
            post == h.data[h.device_id]
            c    == IF h.consumed <= 0 THEN 1 ELSE h.consumed
        IN
        /\ (HasSnap(h) /\ Expired(SnapIn(h), h.snap_at)) =>
               /\ ~h.resp.active
               /\ ~h.resp.is_premium
               /\ h.resp.locked = (SnapIn(h).free_left <= 0)
        /\ (Computed(h, "update_free_count") /\ Expired(h.pre, h.at)) =>
               /\ post.free_left = Max0(h.pre.free_left - c)
               /\ ~post.sub_active
               /\ ~h.resp.active

\* C17 witness: a consume on a record whose stored flag was stale has been
\* stored, one free use less.
C17_Witness ==
    \E w \in Workers :
        LET h == workers[w] IN
        /\ h.pc = "done"
        /\ h.route = "update_free_count"
        /\ h.code = 200
        /\ Expired(h.pre, h.at)
        /\ h.pre.free_left > 0
        /\ db[h.device_id].free_left < h.pre.free_left

\* The stored record of d carries a subscription that has run out.
StaleStored(d) ==
    /\ d \in DOMAIN db
    /\ ~db[d].dev_mode
    /\ db[d].sub_active
    /\ db[d].sub_expires_at # None
    /\ db[d].sub_expires_at <= clock

\* The stored record of d carries no subscription.
SweptStored(d) ==
    /\ d \in DOMAIN db
    /\ ~db[d].sub_active
    /\ db[d].sub_expires_at = None

\* C18 (under SpecSweep): whenever a stored record has sub_active = TRUE,
\* dev_mode = FALSE and a sub_expires_at <= now, a later state is reached
\* in which the stored record has sub_active = FALSE and sub_expires_at =
\* None, whether or not a client calls for the device.
C18_ExpiredEventuallySwept ==
    \A d \in Devices : StaleStored(d) ~> SweptStored(d)

\* C19: for a record that is not active at the time of the call,
\* update_free_count(consumed) computes free_left = max(0, free_left - c)
\* with c = consumed when consumed >= 1 and c = 1 when consumed <= 0, and
\* answers 200 whatever the balance is; a balance of 0 stays 0. That record
\* is what its save stores.
C19_ConsumeArithmetic ==
    \A w \in Workers :
        LET h    == workers[w]
            post == h.data[h.device_id]
            c    == IF h.consumed >= 1 THEN h.consumed ELSE 1
        IN
        ( /\ h.pc \in {"loaded", "done"}
          /\ h.route = "update_free_count"
          /\ h.device_id # ""
          /\ ~EffActive(h.pre, h.at) ) =>
            /\ h.code \notin {400, 401}
            /\ post.free_left = Max0(h.pre.free_left - c)
            /\ h.pre.free_left = 0 => post.free_left = 0
            /\ h.resp.free_left = post.free_left
            /\ h.pc = "done" =>
                   (h.code = 200 /\ db[h.device_id].free_left = post.free_left)

\* C19 witness: a consume with consumed <= 0 on an inactive record with a
\* positive balance has been stored, exactly one free use less.
C19_Witness ==
    \E w \in Workers :
        LET h == workers[w] IN
        /\ h.pc = "done"
        /\ h.route = "update_free_count"
        /\ h.code = 200
        /\ h.consumed <= 0
        /\ ~EffActive(h.pre, h.at)
        /\ h.pre.free_left > 0
        /\ db[h.device_id].free_left = h.pre.free_left - 1

\* C20: toggle_dev on a record with dev_mode off sets dev_mode, sub_active
\* = TRUE and sub_expires_at = None; on a record with dev_mode on it
\* switches dev_mode off and changes nothing else, so the record that on
\* and then off leave behind (dev_mode off, sub_active, no expiry) is
\* stored and every snapshot of it reports active = TRUE, expires_at =
\* None.
C20_ToggleDevMode ==
    \A w \in Workers :
        LET h    == workers[w]
            post == h.data[h.device_id]
        IN
        /\ (Computed(h, "admin_action") /\ h.act = "toggle_dev") =>
               /\ ~h.pre.dev_mode =>
                      post = [h.pre EXCEPT !.dev_mode = TRUE,
                                           !.sub_active = TRUE,
                                           !.sub_expires_at = None]
               /\ h.pre.dev_mode =>
                      post = [h.pre EXCEPT !.dev_mode = FALSE]
               /\ h.pc = "done" => db[h.device_id] = post
        /\ ( /\ HasSnap(h)
             /\ ~SnapIn(h).dev_mode
             /\ SnapIn(h).sub_active
             /\ SnapIn(h).sub_expires_at = None ) =>
               /\ h.resp.active
               /\ h.resp.expires_at = None
               /\ ~h.resp.dev_mode

\* C20 witness: after toggle_dev on and toggle_dev off the stored record
\* has dev_mode off and a subscription without expiry, and a status
\* request for it has been answered with active = TRUE.
C20_Witness ==
    \E w \in Workers :
        LET h == workers[w] IN
        /\ HasSnap(h)
        /\ h.route = "device_status"
        /\ nreq = 3
        /\ ~db[h.device_id].dev_mode
        /\ db[h.device_id].sub_active
        /\ db[h.device_id].sub_expires_at = None
        /\ h.resp.active
        /\ h.resp.expires_at = None

\* The step accepts a verify_payment in slot w.
AcceptsClaim(w) ==
    /\ workers[w].pc = "idle"
    /\ workers'[w].pc = "loaded"
    /\ workers'[w].route = "verify_payment"

\* C21 (under SpecCatalog): the claim appended by a verify_payment that
\* names a plan p of the catalog carries the days and the price the catalog
\* holds for p at that moment, whatever plan_days and plan_price the client
\* sent; and a step that edits the catalog leaves every stored claim as it
\* was.
C21_PlanCapturedFromCatalog ==
    [][ /\ \A w \in Workers :
             LET h   == workers'[w]
                 hst == h.data[h.device_id].tx_history
                 rec == hst[Len(hst)]
             IN
             (AcceptsClaim(w) /\ rec.plan \in DOMAIN config) =>
                 /\ rec.plan_days = config[rec.plan].days
                 /\ rec.plan_price = ToString(config[rec.plan].usd)
        /\ config' # config => db' = db ]_vars

\* The content of a record that ensure_device has just created.
FreshContent(dev) ==
    /\ dev.free_left = INITIAL_FREE
    /\ ~dev.sub_active
    /\ dev.sub_expires_at = None
    /\ ~dev.dev_mode
    /\ dev.tx_history = << >>

\* C22: a record that is missing from the store (never created, or deleted
\* by the operator) comes back only as a fresh one: the save of a request
\* for d that puts d back into the store belongs to a handler for which
\* ensure_device created d; it did not load a record of d from before the
\* delete.
C22_DeleteIsTerminal ==
    [][ \A w \in Workers :
          LET h == workers[w]
              d == h.device_id
          IN
          (Saves(w) /\ d \notin DOMAIN db /\ d \in DOMAIN db')
              => FreshContent(h.pre) ]_vars

\* C23 (under SpecTwoDevices): the save of a request for one device leaves
\* the stored record of every other device as it is, so what a completed
\* request stored for B is not undone by a request for A.
C23_OtherDevicesUntouched ==
    [][ \A w \in Workers : \A d \in DOMAIN db :
          (Saves(w) /\ d # workers[w].device_id)
              => (d \in DOMAIN db' /\ db'[d] = db[d]) ]_vars

\* C24: every stored record, and every record a handler is about to store,
\* has free_left <= INITIAL_FREE.
C24_FreeAtMostInitial ==
    /\ \A d \in DOMAIN db : db[d].free_left <= INITIAL_FREE
    /\ \A w \in Workers :
           LET h == workers[w] IN
           h.pc \in {"loaded", "done"} =>
               \A d \in DOMAIN h.data : h.data[d].free_left <= INITIAL_FREE

\* C24 witness: the operator's reset_free on a record with free uses left
\* (fewer than INITIAL_FREE) has been stored: the balance is INITIAL_FREE.
C24_Witness ==
    \E w \in Workers :
        LET h == workers[w] IN
        /\ h.pc = "done"
        /\ h.route = "admin_action"
        /\ h.code = 302
        /\ h.act = "reset_free"
        /\ h.pre.free_left > 0
        /\ h.pre.free_left < INITIAL_FREE
        /\ db[h.device_id].free_left = INITIAL_FREE

====
